---------------------------- MODULE Spec2Model ----------------------------
(***************************************************************************)
(* Model of the transcript execution core: the windowed Metrics entity     *)
(* (terminal.Metrics, exercised by test/test_terminal.py) and the lane     *)
(* scheduler execution.dispatch with its helper execution._launch.         *)
(*                                                                         *)
(* Two specifications share the variables:                                 *)
(*   SpecM  one Metrics entity driven by update/commit/trim/clear/rate.    *)
(*   Spec   the dispatch loop, its lanes, queue, processes and cleanup.    *)
(*                                                                         *)
(* The collaborators of dispatch are modelled by what the loop sees:       *)
(*   queue    take(n) hands out the next 0..n WorkItems; terminal() holds   *)
(*            once all NItems are handed out; finish calls are counted.     *)
(*   plan     planlen[ident] process specs per WorkItem, fixed at the       *)
(*            start; the iterator of a WorkItem is the position pq[ident].  *)
(*   spawn    succeeds or raises; the process spawned from spec k of a      *)
(*            WorkItem is named SpecId(ident, k).                           *)
(*   ioa      a polling pass yields each connected lane at most once, in    *)
(*            any order, with None (end of stream) or a list of messages.   *)
(*   clock    every iteration takes TickElapsed.                            *)
(* Spawn failure is the one exception raised inside the loop.              *)
(***************************************************************************)
EXTENDS Integers, Sequences, FiniteSets, TLC

(***************************************************************************)
(* Bounds of the model.                                                    *)
(***************************************************************************)
\* Number of Metrics operations applied in one behaviour of SpecM.
MaxOps == 5
\* Largest elapsed value handed to commit in SpecM.
MaxElapsed == 2

\* Window of the Metrics entity used by the trim tests: Metrics(window=4).
TestWindow == 4
\* Window of a Metrics entity constructed without one: m.window == 8.
DefaultWindow == 8
\* The window dispatch trims with when the caller passes none: window=8.
DispatchWindow == 8
\* The elapsed time of one loop iteration at the clock's resolution:
\* (next_time.decrease(last).select('millisecond') or 1).
TickElapsed == 1
\* The smaller window a Metrics entity of SpecM may be constructed with.
SmallWindow == 2

\* Number of monitors handed to dispatch: the lanes.
NLanes == 2
\* Number of WorkItems the queue hands out before it is terminal.
NItems == 2
\* Largest number of process specs a plan yields for one WorkItem.
MaxChain == 2
\* Messages decoded over one run, and the most one polling pass yields for a lane.
MaxMsgs == 2
MaxFrames == 2
\* Loop iterations (metrics ticks) of one run.
MaxTicks == 2

Lanes == 0..(NLanes - 1)
Items == 1..NItems
Channels == {"c1", "c2"}
EventTypes == {"transaction-started", "transaction-stopped", "message"}

Fields == {"k", "executing"}
UpdateValues == {-1, 1}

(***************************************************************************)
(* Dictionaries: functions whose domain is the set of present keys.        *)
(***************************************************************************)
EmptyDict == [x \in {} |-> 0]

Get(d, key) == IF key \in DOMAIN d THEN d[key] ELSE 0

Put(d, key, v) == [x \in (DOMAIN d) \cup {key} |-> IF x = key THEN v ELSE d[x]]

(***************************************************************************)
(* Metrics entity.                                                         *)
(***************************************************************************)
\* Metrics(window): the state after construction.
Metrics(window) ==
    [window |-> window, duration |-> 0, history |-> <<>>,
     current |-> EmptyDict, snapshot |-> EmptyDict]

\* clear(): reset duration, history, snapshot and current; window is kept.
clear(mm) == Metrics(mm.window)

\* Mutant of update: the pending delta is overwritten, not accumulated.
update_Overwrite(mm, field, value) ==
    [mm EXCEPT !.current = Put(@, field, value)]

\* update(field, value, count): add value to the pending delta of the field.
\* The occurrence count is accepted by the entity but read by no operation
\* modelled here, so it is not part of the record.
update(mm, field, value) ==
    [mm EXCEPT !.current = Put(@, field, Get(@, field) + value)]

\* Mutant of changes: a name whose pending deltas sum to zero is left out.
changes_Nonzero(mm) == {f \in DOMAIN mm.current : mm.current[f] # 0}

\* changes(): the names with a pending entry in current.
changes(mm) == DOMAIN mm.current

\* The snapshot with every pending delta folded in.
Fold(mm) ==
    [f \in (DOMAIN mm.snapshot) \cup (DOMAIN mm.current) |->
        Get(mm.snapshot, f) + Get(mm.current, f)]

\* Mutant of commit: a commit without pending deltas records no history entry.
commit_SkipIdle(mm, elapsed) ==
    [mm EXCEPT !.snapshot = Fold(mm),
               !.history = IF DOMAIN mm.current = {} THEN @
                           ELSE Append(@, [snapshot |-> Fold(mm), elapsed |-> elapsed]),
               !.duration = @ + elapsed,
               !.current = EmptyDict]

\* commit(elapsed): fold the deltas, append (snapshot copy, elapsed) to the
\* history, add elapsed to duration, clear current.
commit(mm, elapsed) ==
    [mm EXCEPT !.snapshot = Fold(mm),
               !.history = Append(@, [snapshot |-> Fold(mm), elapsed |-> elapsed]),
               !.duration = @ + elapsed,
               !.current = EmptyDict]

\* Sum of the elapsed values of the history entries after position i.
RECURSIVE ElapsedAfter(_, _)
ElapsedAfter(h, i) ==
    IF i >= Len(h) THEN 0 ELSE h[i + 1].elapsed + ElapsedAfter(h, i + 1)

\* End-of-interval marker of history entry i: the duration as of its commit.
EndMarker(mm, i) == mm.duration - ElapsedAfter(mm.history, i)

\* The entries of h from position i on whose marker is not before the cutoff.
RECURSIVE Retained(_, _, _)
Retained(mm, i, cutoff) ==
    IF i > Len(mm.history) THEN <<>>
    ELSE IF EndMarker(mm, i) >= cutoff
         THEN <<mm.history[i]>> \o Retained(mm, i + 1, cutoff)
         ELSE Retained(mm, i + 1, cutoff)

\* Mutant of trim: an entry whose marker equals the cutoff is dropped too.
RECURSIVE Retained_Strict(_, _, _)
Retained_Strict(mm, i, cutoff) ==
    IF i > Len(mm.history) THEN <<>>
    ELSE IF EndMarker(mm, i) > cutoff
         THEN <<mm.history[i]>> \o Retained_Strict(mm, i + 1, cutoff)
         ELSE Retained_Strict(mm, i + 1, cutoff)

trim_Strict(mm, window) ==
    [mm EXCEPT !.history = Retained_Strict(mm, 1, mm.duration - window)]

\* Mutant of trim: the pending deltas are dropped with the old entries.
trim_DropsPending(mm, window) ==
    [mm EXCEPT !.history = Retained(mm, 1, mm.duration - window),
               !.current = EmptyDict]

\* trim(window): drop the entries that end strictly before duration - window.
trim(mm, window) ==
    [mm EXCEPT !.history = Retained(mm, 1, mm.duration - window)]

total(mm, field) == Get(mm.snapshot, field) + Get(mm.current, field)

recent(mm, field) == Get(mm.snapshot, field)

\* rate(field): total / duration, a ZeroDivisionError when duration is 0.
\* The quotient is kept as the pair of its operands (num / den).
ZeroDivisionError == "ZeroDivisionError"

NoError == "none"

\* Mutant of rate: the guard looks at the history, not at the duration.
rate_HistoryGuard(mm, field) ==
    IF mm.history = <<>>
    THEN [raised |-> ZeroDivisionError, num |-> 0, den |-> 0]
    ELSE [raised |-> NoError, num |-> total(mm, field), den |-> mm.duration]

rate(mm, field) ==
    IF mm.duration = 0
    THEN [raised |-> ZeroDivisionError, num |-> 0, den |-> 0]
    ELSE [raised |-> NoError, num |-> total(mm, field), den |-> mm.duration]

\* delta(names): the recent value of exactly the given fields.
delta(mm, names) == [f \in names |-> recent(mm, f)]

(***************************************************************************)
(* State.                                                                  *)
(***************************************************************************)
VARIABLES
    \* One Metrics entity under test (SpecM).
    m,
    \* The last operation applied to m: its name, arguments, the entity
    \* before it and what a rate call returned.
    lastop,
    \* Per field, the sum of the values passed to update since the last
    \* commit (since construction when there was none).
    sinceCommit,
    \* Per field, the sum of the values passed to update since the last
    \* commit or clear.
    sinceReset,
    \* The field names passed to update since the last commit or clear
    \* (since construction when there was neither).
    updated,
    \* Commits, and the sum of their elapsed values, since construction or
    \* the last clear; whether a trim happened since then.
    ncommits, sumElapsed, trimmed,
    \* Number of operations applied so far.
    nops,
    \* dispatch: the position of the loop.
    \*   "admit" (line 107), "terminal" (line 134), "poll" (line 165),
    \*   "tick" (line 232), "finally" (line 257), "returned", "raised".
    pc,
    \* The deque of idle lane indexes.
    available,
    \* statusd: lane index -> JobSession record, and its keys in dict order.
    statusd, order,
    \* The 'pid' entry of the dict the local name status is bound to.
    status,
    \* plan(ident): the number of process specs each WorkItem's plan yields.
    planlen,
    \* Per WorkItem, the specs its plan iterator has yielded so far.
    pq,
    \* queue: WorkItems handed out by take, and finish calls per WorkItem.
    taken, finished,
    \* Processes spawned and not reaped; the lane each process's pipe was
    \* connected to; the processes sent SIGKILL.
    live, lane_of, killed,
    \* The pipe descriptors allocated by _launch that it has not closed. A
    \* read end passed to ioa.connect is the FrameArray's from then on.
    fds,
    \* ioa: per lane the process whose output it reads (NoPid: none), and
    \* whether the FrameArray is entered.
    ioa, entered,
    \* monitors[lid].metrics and summary.metrics.
    metrics, mtotals,
    \* The lanes already yielded by the current polling pass.
    visited,
    \* The exception propagating out of the loop or the cleanup.
    error,
    \* The calls made by the last step, in order.
    calls,
    \* Messages decoded and loop iterations so far.
    nmsgs, ticks

varsM == <<m, lastop, sinceCommit, sinceReset, updated, ncommits, sumElapsed,
           trimmed, nops>>

varsD == <<pc, available, statusd, order, status, planlen, pq, taken, finished,
           live, lane_of, killed, fds, ioa, entered, metrics, mtotals, visited,
           error, calls, nmsgs, ticks>>

vars == <<varsM, varsD>>

ZeroOf == [f \in Fields |-> 0]

NoResult == [raised |-> NoError, num |-> 0, den |-> 0]

Op(name, field, arg, result) ==
    [op |-> name, field |-> field, arg |-> arg, result |-> result, before |-> m]

(***************************************************************************)
(* dispatch: records and helpers.                                          *)
(***************************************************************************)
NoPid == 0

\* The process spec k of a WorkItem's plan; it names the process spawned
\* from it (pid) and its channel qualifier (xqual).
SpecId(ident, k) == (ident - 1) * MaxChain + k

Pids == 1..(NItems * MaxChain)

NoTransactions == [c \in Channels |-> <<>>]

\* The dict built for an admitted WorkItem; 'process-queue' is the plan
\* iterator of source (pq[source]); a pid of NoPid is the absent 'pid' key.
NewStatus(ident) ==
    [channel |-> NoPid, source |-> ident, pid |-> NoPid,
     transactions |-> NoTransactions]

Call(fn, lane, arg) == [fn |-> fn, lane |-> lane, arg |-> arg]

\* The state a step works on; failIn counts down to the spawn that fails.
Cur(failIn) ==
    [available |-> available, statusd |-> statusd, order |-> order,
     status |-> status, pq |-> pq, finished |-> finished, live |-> live,
     lane_of |-> lane_of, killed |-> killed, fds |-> fds, ioa |-> ioa,
     entered |-> entered, metrics |-> metrics, mtotals |-> mtotals,
     error |-> error, calls |-> <<>>, failIn |-> failIn]

Becomes(s) ==
    /\ available' = s.available
    /\ statusd' = s.statusd
    /\ order' = s.order
    /\ status' = s.status
    /\ pq' = s.pq
    /\ finished' = s.finished
    /\ live' = s.live
    /\ lane_of' = s.lane_of
    /\ killed' = s.killed
    /\ fds' = s.fds
    /\ entered' = s.entered
    /\ ioa' = s.ioa
    /\ metrics' = s.metrics
    /\ mtotals' = s.mtotals
    /\ error' = s.error
    /\ calls' = s.calls

Log(s, fn, lane, arg) == [s EXCEPT !.calls = Append(@, Call(fn, lane, arg))]

\* statusd[lid] = st: a new key goes to the end of the dict.
SetStatus(s, lid, st) ==
    [s EXCEPT !.statusd = Put(@, lid, st),
              !.order = IF lid \in DOMAIN s.statusd THEN @ ELSE Append(@, lid),
              !.status = [pid |-> st.pid]]

\* del statusd[lid]
DelStatus(s, lid) ==
    [s EXCEPT !.statusd = [x \in (DOMAIN @) \ {lid} |-> @[x]],
              !.order = SelectSeq(@, LAMBDA x : x # lid)]

\* ioa.connect(lid, rfd): the lane reads the output of process pid.
Connect(s, lid, pid) ==
    Log([s EXCEPT !.ioa[lid] = pid, !.lane_of[pid] = lid], "connect", lid, pid)

\* queue.finish(ident)
Finish(s, lid, ident) ==
    Log([s EXCEPT !.finished[ident] = @ + 1], "finish", lid, ident)

\* execution.reap(pid, options=0)
Reap(s, lid, pid) ==
    Log([s EXCEPT !.live = @ \ {pid}], "reap", lid, pid)

\* The pipe allocated for a process spec: os.pipe() returns descriptors no
\* other open pipe uses, so they are named after the spec; the read end has
\* the number the model gives the process spawned from the spec.
Rfd(id) == id

Wfd(id) == 0 - id

NoFd == 0

\* os.close(fd)
Close(s, fd) == Log([s EXCEPT !.fds = @ \ {fd}], "close", -1, fd)

\* Mutant of _launch: a failed spawn closes the write end only.
_launch_LeakRead(s, st) ==
    LET src == st.source
        pos == s.pq[src]
        id == SpecId(src, pos + 1)
        s1 == [s EXCEPT !.pq[src] = pos + 1,
                        !.failIn = IF @ > 0 THEN @ - 1 ELSE 0]
        s2 == Log([s1 EXCEPT !.fds = @ \cup {Rfd(id), Wfd(id)}], "pipe", -1, id)
        st1 == [st EXCEPT !.channel = id]
    IN  IF pos >= planlen[src]
        THEN [s |-> s, st |-> st, rc |-> "None", rfd |-> NoFd]
        ELSE IF s.failIn = 1
        THEN [s |-> Close([s2 EXCEPT !.error = "spawn"], Wfd(id)),
              st |-> st1, rc |-> "raise", rfd |-> NoFd]
        ELSE [s |-> Close(Log([s2 EXCEPT !.live = @ \cup {id}], "spawn", -1, id),
                          Wfd(id)),
              st |-> [st1 EXCEPT !.pid = id], rc |-> "channel", rfd |-> Rfd(id)]

\* _launch(status): next(status['process-queue']), os.pipe(), then spawn.
\* rc is "None" (StopIteration), "channel" (spawned; rfd is the read end
\* returned) or "raise" (spawn failed).
_launch(s, st) ==
    LET src == st.source
        pos == s.pq[src]
        id == SpecId(src, pos + 1)
        s1 == [s EXCEPT !.pq[src] = pos + 1,
                        !.failIn = IF @ > 0 THEN @ - 1 ELSE 0]
        s2 == Log([s1 EXCEPT !.fds = @ \cup {Rfd(id), Wfd(id)}], "pipe", -1, id)
        st1 == [st EXCEPT !.channel = id]
    IN  IF pos >= planlen[src]
        THEN [s |-> s, st |-> st, rc |-> "None", rfd |-> NoFd]
        ELSE IF s.failIn = 1
        THEN [s |-> Close(Close([s2 EXCEPT !.error = "spawn"], Rfd(id)), Wfd(id)),
              st |-> st1, rc |-> "raise", rfd |-> NoFd]
        ELSE [s |-> Close(Log([s2 EXCEPT !.live = @ \cup {id}], "spawn", -1, id),
                          Wfd(id)),
              st |-> [st1 EXCEPT !.pid = id], rc |-> "channel", rfd |-> Rfd(id)]

(***************************************************************************)
(* dispatch: admission (lines 107-133).                                    *)
(***************************************************************************)
\* Mutant of AdmitOne: the lane is read from the pool but not taken out.
AdmitOne_NoPop(s, ident) ==
    LET lid == Head(s.available)
        s1 == SetStatus(s, lid, NewStatus(ident))
        s2 == Log([s1 EXCEPT !.metrics[lid] = clear(@)], "clear", lid, 0)
        r == _launch(s2, NewStatus(ident))
        s3 == SetStatus(r.s, lid, r.st)
    IN  CASE r.rc = "None" -> Finish(s3, lid, ident)
          [] r.rc = "raise" -> s3
          [] OTHER -> Connect(s3, lid, r.rfd)

\* One pass of the for loop over queue.take: admit ident on the next lane.
AdmitOne(s, ident) ==
    LET lid == Head(s.available)
        s1 == SetStatus([s EXCEPT !.available = Tail(@)], lid, NewStatus(ident))
        s2 == Log([s1 EXCEPT !.metrics[lid] = clear(@)], "clear", lid, 0)
        r == _launch(s2, NewStatus(ident))
        s3 == SetStatus(r.s, lid, r.st)
    IN  CASE r.rc = "None" ->
                [Finish(s3, lid, ident) EXCEPT !.available = Append(@, lid)]
          [] r.rc = "raise" -> s3
          [] OTHER -> Connect(s3, lid, r.rfd)

RECURSIVE AdmitItems(_, _, _)
AdmitItems(s, ident, last) ==
    IF ident > last \/ s.error # "none" THEN s
    ELSE AdmitItems(AdmitOne(s, ident), ident + 1, last)

Min(a, b) == IF a < b THEN a ELSE b

Admit(k, failIn) ==
    /\ pc = "admit"
    /\ available # <<>>
    /\ k <= Min(Len(available), NItems - taken)
    /\ LET s == AdmitItems(Cur(failIn), taken + 1, taken + k)
       IN  /\ Becomes(s)
           /\ pc' = IF s.error # "none" THEN "finally" ELSE "terminal"
    /\ taken' = taken + k
    /\ UNCHANGED <<planlen, visited, nmsgs, ticks>>

\* No lane is idle: the loop goes on to the polling pass.
NoLane ==
    /\ pc = "admit"
    /\ available = <<>>
    /\ pc' = "poll"
    /\ calls' = <<>>
    /\ UNCHANGED <<available, statusd, order, status, planlen, pq, taken,
                   finished, live, lane_of, killed, fds, ioa, entered, metrics,
                   mtotals, visited, error, nmsgs, ticks>>

(***************************************************************************)
(* dispatch: end of queue (lines 134-162).                                 *)
(***************************************************************************)
terminal == taken = NItems

\* Queue terminal and statusd empty: processing = False, the loop ends.
Exhausted ==
    /\ pc = "terminal"
    /\ terminal
    /\ DOMAIN statusd = {}
    /\ pc' = "finally"
    /\ calls' = <<Call("flush", -1, 0)>>
    /\ UNCHANGED <<available, statusd, order, status, planlen, pq, taken,
                   finished, live, lane_of, killed, fds, ioa, entered, metrics,
                   mtotals, visited, error, nmsgs, ticks>>

\* The for loop over list(statusd) from position j, with its inner
\* while available loop: launch further specs of existing jobs on idle lanes.
RECURSIVE BackfillFrom(_, _, _)
BackfillFrom(s, sources, j) ==
    IF j > Len(sources) \/ s.available = <<>> THEN s
    ELSE LET copy == s.statusd[sources[j]]
             r == _launch([s EXCEPT !.status = [pid |-> copy.pid]], copy)
             xlid == Head(s.available)
             st == [r.st EXCEPT !.transactions = NoTransactions]
         IN  CASE r.rc = "None" -> BackfillFrom(r.s, sources, j + 1)
               [] r.rc = "raise" -> r.s
               [] OTHER ->
                    BackfillFrom(
                        Connect(SetStatus([r.s EXCEPT !.available = Tail(@)],
                                          xlid, st), xlid, r.rfd),
                        sources, j)

Backfill(failIn) ==
    /\ pc = "terminal"
    /\ terminal
    /\ DOMAIN statusd # {}
    /\ available # <<>>
    /\ LET s == BackfillFrom(Log(Cur(failIn), "flush", -1, 0), order, 1)
       IN  /\ Becomes(s)
           /\ pc' = IF s.error # "none" THEN "finally" ELSE "poll"
    /\ UNCHANGED <<planlen, taken, visited, nmsgs, ticks>>

\* The queue is not terminal, or every lane is occupied.
Proceed ==
    /\ pc = "terminal"
    /\ ~terminal \/ (DOMAIN statusd # {} /\ available = <<>>)
    /\ pc' = "poll"
    /\ calls' = <<Call("flush", -1, 0)>>
    /\ UNCHANGED <<available, statusd, order, status, planlen, pq, taken,
                   finished, live, lane_of, killed, fds, ioa, entered, metrics,
                   mtotals, visited, error, nmsgs, ticks>>

(***************************************************************************)
(* dispatch: the polling pass (lines 165-230).                             *)
(***************************************************************************)
\* Mutant of the end-of-stream handler: the end-of-process trap is invoked
\* after the launch of the next process and the clearing of the Metrics.
CloseLane_EopLate(s, lid) ==
    LET st == s.statusd[lid]
        s1 == Reap([s EXCEPT !.status = [pid |-> st.pid], !.ioa[lid] = NoPid],
                   lid, st.pid)
        r == _launch(s1, st)
        s3 == SetStatus(r.s, lid, r.st)
        s4 == Log(Log([s3 EXCEPT !.metrics[lid] = clear(@)], "clear", lid, 0),
                  "eop", lid, [channel |-> st.channel, pid |-> st.pid])
    IN  CASE r.rc = "raise" -> s3
          [] r.rc = "channel" -> Connect(s4, lid, r.rfd)
          [] OTHER ->
               [DelStatus(Finish(s4, lid, st.source), lid)
                   EXCEPT !.available = Append(@, lid),
                          !.status = [pid |-> NoPid]]

\* sframes is None: the lane's process closed its output (lines 172-196).
CloseLane(s, lid) ==
    LET st == s.statusd[lid]
        s1 == Reap([s EXCEPT !.status = [pid |-> st.pid], !.ioa[lid] = NoPid],
                   lid, st.pid)
        s2 == Log(s1, "eop", lid, [channel |-> st.channel, pid |-> st.pid])
        r == _launch(s2, st)
        s3 == SetStatus(r.s, lid, r.st)
        s4 == Log([s3 EXCEPT !.metrics[lid] = clear(@)], "clear", lid, 0)
    IN  CASE r.rc = "raise" -> s3
          [] r.rc = "channel" -> Connect(s4, lid, r.rfd)
          [] OTHER ->
               [DelStatus(Finish(s4, lid, st.source), lid)
                   EXCEPT !.available = Append(@, lid),
                          !.status = [pid |-> NoPid]]

PollClose(lid, failIn) ==
    /\ pc = "poll"
    /\ lid \notin visited
    /\ ioa[lid] # NoPid
    /\ LET s == CloseLane(Cur(failIn), lid)
       IN  /\ Becomes(s)
           /\ pc' = IF s.error # "none" THEN "finally" ELSE "poll"
    /\ visited' = visited \cup {lid}
    /\ UNCHANGED <<planlen, taken, nmsgs, ticks>>

Frame == [channel : Channels, ev : EventTypes]

FrameLists == UNION {[1..n -> Frame] : n \in 1..MaxFrames}

\* The body of the for loop over sframes for one message (lines 201-230).
\* No message modelled carries a metrics Report.
HandleFrame(s, lid, channel, msg) ==
    LET st == s.statusd[lid]
        buf == Append(st.transactions[channel], msg)
        moved(by) == [s EXCEPT !.metrics[lid] = update(@, "executing", by),
                               !.mtotals = update(@, "executing", by)]
        keep(t) == [t EXCEPT !.statusd[lid].transactions[channel] = buf]
        pop(t) == [t EXCEPT !.statusd[lid].transactions[channel] = <<>>]
    IN  CASE msg.ev = "transaction-stopped" ->
               IF Len(buf) >= 2
               THEN Log(pop(moved(-1)), "eox", lid,
                        [stop |-> buf[Len(buf)], start |-> buf[1],
                         messages |-> SubSeq(buf, 2, Len(buf) - 1),
                         channel |-> st.channel])
               ELSE pop(moved(-1))
          [] msg.ev = "transaction-started" -> keep(moved(1))
          [] OTHER -> keep(s)

RECURSIVE HandleFrames(_, _, _, _)
HandleFrames(s, lid, sframes, i) ==
    IF i > Len(sframes) THEN s
    ELSE HandleFrames(
            HandleFrame(s, lid, sframes[i].channel,
                        [ev |-> sframes[i].ev, id |-> nmsgs + i]),
            lid, sframes, i + 1)

PollFrames(lid, sframes) ==
    /\ pc = "poll"
    /\ lid \notin visited
    /\ ioa[lid] # NoPid
    /\ nmsgs + Len(sframes) <= MaxMsgs
    /\ Becomes(HandleFrames(
           Log([Cur(0) EXCEPT !.status = [pid |-> statusd[lid].pid]],
               "frames", lid,
               [sframes |-> sframes, before |-> statusd[lid].transactions]),
           lid, sframes, 1))
    /\ visited' = visited \cup {lid}
    /\ nmsgs' = nmsgs + Len(sframes)
    /\ UNCHANGED <<pc, planlen, taken, ticks>>

\* The pass yielded every lane with activity.
PollEnd ==
    /\ pc = "poll"
    /\ pc' = "tick"
    /\ visited' = {}
    /\ calls' = <<>>
    /\ UNCHANGED <<available, statusd, order, status, planlen, pq, taken,
                   finished, live, lane_of, killed, fds, ioa, entered, metrics,
                   mtotals, error, nmsgs, ticks>>

(***************************************************************************)
(* dispatch: the metrics tick (lines 232-254).                             *)
(***************************************************************************)
RECURSIVE TickLanes(_, _, _)
TickLanes(s, lid, elapsed) ==
    IF lid >= NLanes THEN s
    ELSE LET mm == s.metrics[lid]
             deltas == changes(mm)
             mc == trim(commit(mm, elapsed), DispatchWindow)
             s1 == Log([s EXCEPT !.metrics[lid] = mc], "commit", lid, elapsed)
         IN  TickLanes(Log(s1, "update", lid, delta(mc, deltas)),
                       lid + 1, elapsed)

\* Mutant of the tick: the aggregate is committed and its update sent before
\* the lanes are visited, and the display is flushed in between.
TickAll_AggregateFirst(s, elapsed) ==
    LET tdeltas == changes(s.mtotals)
        mc == trim(commit(s.mtotals, elapsed), DispatchWindow)
        s1 == Log([s EXCEPT !.mtotals = mc], "commit", -1, elapsed)
        s2 == Log(Log(Log(s1, "frame", -1, 0), "update", -1, delta(mc, tdeltas)),
                  "flush", -1, 0)
    IN  TickLanes(s2, 0, elapsed)

TickAll(s, elapsed) ==
    LET s1 == TickLanes(s, 0, elapsed)
        tdeltas == changes(s1.mtotals)
        mc == trim(commit(s1.mtotals, elapsed), DispatchWindow)
        s2 == Log([s1 EXCEPT !.mtotals = mc], "commit", -1, elapsed)
    IN  Log(Log(Log(s2, "frame", -1, 0), "update", -1, delta(mc, tdeltas)),
            "flush", -1, 0)

Tick ==
    /\ pc = "tick"
    /\ ticks < MaxTicks
    /\ Becomes(TickAll(Cur(0), TickElapsed))
    /\ pc' = "admit"
    /\ ticks' = ticks + 1
    /\ UNCHANGED <<planlen, taken, visited, nmsgs>>

(***************************************************************************)
(* dispatch: the finally clause (lines 257-265).                           *)
(***************************************************************************)
\* The for loop over statusd from position j. killpg raises KeyError for a
\* dict without 'pid' and ProcessLookupError for a process already reaped;
\* both are passed over. After a kill, reap reads status['pid'], the dict
\* the name status was last bound to in the loop.
RECURSIVE KillFrom(_, _, _)
KillFrom(s, keys, j) ==
    IF j > Len(keys) THEN s
    ELSE LET lid == keys[j]
             pid == s.statusd[lid].pid
             s1 == Log([s EXCEPT !.killed = @ \cup {pid}], "killpg", lid, pid)
         IN  IF pid = NoPid \/ pid \notin s.live
             THEN KillFrom(s, keys, j + 1)
             ELSE IF s.status.pid = NoPid
                  THEN [s1 EXCEPT !.error = "KeyError"]
                  ELSE KillFrom(Reap(s1, lid, s.status.pid), keys, j + 1)

Cleanup ==
    /\ pc = "finally"
    /\ LET s0 == Log([Cur(0) EXCEPT !.entered = FALSE,
                                    !.ioa = [l \in Lanes |-> NoPid]],
                     "exit", -1, 0)
           s == KillFrom(s0, order, 1)
       IN  /\ Becomes(s)
           /\ pc' = IF s.error # "none" THEN "raised" ELSE "returned"
    /\ UNCHANGED <<planlen, taken, visited, nmsgs, ticks>>

(***************************************************************************)
(* Spec: dispatch from its first loop iteration to its return.             *)
(***************************************************************************)
InitD ==
    /\ pc = "admit"
    /\ available = [i \in 1..NLanes |-> i - 1]
    /\ statusd = EmptyDict
    /\ order = <<>>
    /\ status = [pid |-> NoPid]
    /\ planlen \in [Items -> 0..MaxChain]
    /\ pq = [i \in Items |-> 0]
    /\ taken = 0
    /\ finished = [i \in Items |-> 0]
    /\ live = {}
    /\ lane_of = [p \in Pids |-> -1]
    /\ killed = {}
    /\ fds = {}
    /\ ioa = [l \in Lanes |-> NoPid]
    /\ entered = TRUE
    /\ metrics = [l \in Lanes |-> Metrics(DefaultWindow)]
    /\ mtotals = Metrics(DefaultWindow)
    /\ visited = {}
    /\ error = "none"
    /\ calls = <<>>
    /\ nmsgs = 0
    /\ ticks = 0

MetricsIdle ==
    /\ m = Metrics(DefaultWindow)
    /\ lastop = [op |-> "init", field |-> "k", arg |-> 0, result |-> NoResult,
                 before |-> m]
    /\ sinceCommit = ZeroOf
    /\ sinceReset = ZeroOf
    /\ updated = {}
    /\ ncommits = 0
    /\ sumElapsed = 0
    /\ trimmed = FALSE
    /\ nops = 0

Init == InitD /\ MetricsIdle

Next ==
    \/ \E k \in 0..NLanes, failIn \in 0..NLanes :
          Admit(k, failIn) /\ UNCHANGED varsM
    \/ NoLane /\ UNCHANGED varsM
    \/ Exhausted /\ UNCHANGED varsM
    \/ \E failIn \in 0..NLanes : Backfill(failIn) /\ UNCHANGED varsM
    \/ Proceed /\ UNCHANGED varsM
    \/ \E lid \in Lanes, failIn \in 0..1 : PollClose(lid, failIn) /\ UNCHANGED varsM
    \/ \E lid \in Lanes, sframes \in FrameLists :
          PollFrames(lid, sframes) /\ UNCHANGED varsM
    \/ PollEnd /\ UNCHANGED varsM
    \/ Tick /\ UNCHANGED varsM
    \/ Cleanup /\ UNCHANGED varsM

Spec == Init /\ [][Next]_vars

InitM ==
    /\ m \in {Metrics(SmallWindow), Metrics(TestWindow)}
    /\ lastop = [op |-> "init", field |-> "k", arg |-> 0, result |-> NoResult,
                 before |-> m]
    /\ sinceCommit = ZeroOf
    /\ sinceReset = ZeroOf
    /\ updated = {}
    /\ ncommits = 0
    /\ sumElapsed = 0
    /\ trimmed = FALSE
    /\ nops = 0
    /\ InitD
    /\ planlen = [i \in Items |-> 1]

(***************************************************************************)
(* SpecM: the operations of one Metrics entity.                            *)
(***************************************************************************)
Update(field, value) ==
    /\ nops < MaxOps
    /\ m' = update(m, field, value)
    /\ lastop' = Op("update", field, value, NoResult)
    /\ sinceCommit' = [sinceCommit EXCEPT ![field] = @ + value]
    /\ sinceReset' = [sinceReset EXCEPT ![field] = @ + value]
    /\ updated' = updated \cup {field}
    /\ nops' = nops + 1
    /\ UNCHANGED <<ncommits, sumElapsed, trimmed>>

Commit(elapsed) ==
    /\ nops < MaxOps
    /\ m' = commit(m, elapsed)
    /\ lastop' = Op("commit", "k", elapsed, NoResult)
    /\ sinceCommit' = ZeroOf
    /\ sinceReset' = ZeroOf
    /\ updated' = {}
    /\ ncommits' = ncommits + 1
    /\ sumElapsed' = sumElapsed + elapsed
    /\ nops' = nops + 1
    /\ UNCHANGED trimmed

Trim ==
    /\ nops < MaxOps
    /\ m' = trim(m, m.window)
    /\ lastop' = Op("trim", "k", m.window, NoResult)
    /\ trimmed' = TRUE
    /\ nops' = nops + 1
    /\ UNCHANGED <<sinceCommit, sinceReset, updated, ncommits, sumElapsed>>

Clear ==
    /\ nops < MaxOps
    /\ m' = clear(m)
    /\ lastop' = Op("clear", "k", 0, NoResult)
    /\ sinceReset' = ZeroOf
    /\ updated' = {}
    /\ ncommits' = 0
    /\ sumElapsed' = 0
    /\ trimmed' = FALSE
    /\ nops' = nops + 1
    /\ UNCHANGED sinceCommit

Rate(field) ==
    /\ nops < MaxOps
    /\ lastop' = Op("rate", field, 0, rate(m, field))
    /\ nops' = nops + 1
    /\ UNCHANGED <<m, sinceCommit, sinceReset, updated, ncommits, sumElapsed, trimmed>>

NextM ==
    \/ \E field \in Fields, value \in UpdateValues :
          Update(field, value) /\ UNCHANGED varsD
    \/ \E elapsed \in 0..MaxElapsed : Commit(elapsed) /\ UNCHANGED varsD
    \/ Trim /\ UNCHANGED varsD
    \/ Clear /\ UNCHANGED varsD
    \/ \E field \in Fields : Rate(field) /\ UNCHANGED varsD

SpecM == InitM /\ [][NextM]_vars

(***************************************************************************)
(* Claims about dispatch (checked under Spec).                             *)
(***************************************************************************)
\* The loop is between two of its steps.
InLoop == pc \in {"admit", "terminal", "poll", "tick"}

\* How often a lane index appears in the available pool.
Count(lid) == Cardinality({i \in DOMAIN available : available[i] = lid})

\* Every process of the WorkItem's plan was spawned and reaped.
ChainDone(ident) ==
    /\ pq[ident] = planlen[ident]
    /\ \A k \in 1..planlen[ident] : SpecId(ident, k) \notin live

\* C1: between loop steps, each lane index appears at most once in the
\* available pool, and it is in the pool exactly when statusd records no
\* JobSession for the lane.
C1_LanePool ==
    InLoop =>
      \A lid \in Lanes :
        /\ Count(lid) <= 1
        /\ (Count(lid) = 1) <=> (lid \notin DOMAIN statusd)

\* C2: the processes spawned and not yet reaped never number more than the
\* lanes, each of them is connected to a lane, and no lane is connected to
\* two live processes.
C2_BoundedProcesses ==
    /\ Cardinality(live) <= NLanes
    /\ \A p \in live : lane_of[p] \in Lanes
    /\ \A p \in live, q \in live : lane_of[p] = lane_of[q] => p = q

\* C2 witness: every lane runs a process, after an earlier process was
\* reaped and a further spec was launched by chaining or by backfill.
C2_Witness ==
    /\ Cardinality(live) = NLanes
    /\ \E i \in Items : pq[i] = 2 /\ SpecId(i, 2) \in live
    /\ \E p \in Pids : lane_of[p] \in Lanes /\ p \notin live
    /\ InLoop

\* C3: when the loop checks for the end with the queue terminal and every
\* spawned process closed and reaped, no lane holds a JobSession, so the
\* loop ends there; plans that yield no process spec included.
C3_CleanTermination ==
    (pc = "terminal" /\ terminal /\ live = {}) => DOMAIN statusd = {}

\* C3, supporting: once the queue is terminal, no process is left and statusd
\* is not empty, every further step leaves the loop in that situation.
C3_Stuck == terminal /\ live = {} /\ DOMAIN statusd # {} /\ InLoop

C3_StuckForever == [][C3_Stuck => C3_Stuck']_vars

\* C4: while a WorkItem whose plan yields two or more process specs has a
\* process running or a spec left, the lane that admitted it is not in the
\* available pool; and the lane a later process of the chain is connected
\* to has its Metrics cleared by the step that launches the process.
C4_ChainKeepsLane ==
    InLoop =>
      /\ \A i \in Items :
            (planlen[i] >= 2 /\ lane_of[SpecId(i, 1)] \in Lanes /\ ~ChainDone(i))
               => Count(lane_of[SpecId(i, 1)]) = 0
      /\ \A n \in DOMAIN calls :
            (calls[n].fn = "connect"
               /\ \E i \in Items, k \in 2..MaxChain : calls[n].arg = SpecId(i, k))
               => metrics[calls[n].lane] = clear(metrics[calls[n].lane])

\* Whether a transaction-started message is in the buffer.
HasStart(buf) == \E n \in DOMAIN buf : buf[n].ev = "transaction-started"

\* The end-of-transaction traps the messages of sframes from position i on
\* call for, open[c] telling whether a transaction is open on channel c.
RECURSIVE TransactionsClosed(_, _, _)
TransactionsClosed(open, sframes, i) ==
    IF i > Len(sframes) THEN 0
    ELSE LET c == sframes[i].channel
         IN  CASE sframes[i].ev = "transaction-stopped" ->
                    (IF open[c] THEN 1 ELSE 0)
                      + TransactionsClosed([open EXCEPT ![c] = FALSE], sframes, i + 1)
               [] sframes[i].ev = "transaction-started" ->
                    TransactionsClosed([open EXCEPT ![c] = TRUE], sframes, i + 1)
               [] OTHER -> TransactionsClosed(open, sframes, i + 1)

EoxCalls == {n \in DOMAIN calls : calls[n].fn = "eox"}

\* C5: a polling step invokes eox once for every transaction-stopped that
\* closes a transaction opened by a transaction-started on its channel, with
\* a start and a stop frame, and not at all for a transaction-stopped on a
\* channel with no transaction-started open.
C5_EoxPerTransaction ==
    (calls # <<>> /\ calls[1].fn = "frames") =>
      /\ Cardinality(EoxCalls) =
            TransactionsClosed([c \in Channels |-> HasStart(calls[1].arg.before[c])],
                               calls[1].arg.sframes, 1)
      /\ \A n \in EoxCalls : calls[n].arg.stop.ev = "transaction-stopped"

\* C6: when dispatch has left its finally clause, the FrameMultiplexer is
\* released, the cleanup raised nothing of its own, and no lane holds a
\* JobSession whose process is running without having been sent SIGKILL.
C6_CleanupKillsAll ==
    pc \in {"returned", "raised"} =>
      /\ ~entered
      /\ error # "KeyError"
      /\ \A lid \in DOMAIN statusd :
            statusd[lid].pid \in live => statusd[lid].pid \in killed

\* C7: no two lanes hold JobSessions of the same WorkItem (and so of the
\* same process-spec iterator).
C7_ExclusiveSession ==
    \A l1 \in DOMAIN statusd, l2 \in DOMAIN statusd :
        statusd[l1].source = statusd[l2].source => l1 = l2

(***************************************************************************)
(* Claims about the Metrics entity (checked under SpecM).                  *)
(***************************************************************************)

\* C8 as stated: after every sequence of update/commit/trim/clear calls and
\* for every field, total(field) = recent(field) + the sum of the values
\* passed to update for the field since the last commit.
C8_TotalSinceLastCommit ==
    \A f \in Fields : total(m, f) = recent(m, f) + sinceCommit[f]

\* C8 amended: for every field, total(field) = recent(field) + the sum of the
\* values passed to update for the field since the last commit or clear;
\* update changes total by its value and leaves recent unchanged; commit
\* makes recent equal to total.
C8_TotalRecentPending ==
    /\ \A f \in Fields : total(m, f) = recent(m, f) + sinceReset[f]
    /\ lastop.op = "update" =>
          /\ \A f \in Fields : recent(m, f) = recent(lastop.before, f)
          /\ total(m, lastop.field) = total(lastop.before, lastop.field) + lastop.arg
    /\ lastop.op = "commit" =>
          \A f \in Fields : /\ recent(m, f) = total(m, f)
                            /\ recent(m, f) = total(lastop.before, f)

\* C8 witness: an update on top of a committed, non-zero value of the field,
\* leaving a non-zero pending sum.
C8_Witness ==
    /\ lastop.op = "update"
    /\ lastop.field = "k"
    /\ recent(m, "k") # 0
    /\ sinceReset["k"] # 0
    /\ total(m, "k") # recent(m, "k")

\* C9: every commit(elapsed) appends exactly one history entry and adds
\* exactly elapsed to duration; after k commits with no intervening trim or
\* clear, len(history) = k and duration = the sum of the k elapsed values.
C9_CommitCounts ==
    /\ lastop.op = "commit" =>
          /\ Len(m.history) = Len(lastop.before.history) + 1
          /\ m.duration = lastop.before.duration + lastop.arg
    /\ ~trimmed => Len(m.history) = ncommits
    /\ m.duration = sumElapsed

\* C9 witness: three commits, the last one with elapsed 0 and no pending
\* update, none of them first.
C9_Witness ==
    /\ lastop.op = "commit"
    /\ lastop.arg = 0
    /\ changes(lastop.before) = {}
    /\ ~trimmed
    /\ ncommits = 3
    /\ m.duration = 2

\* C10: rate(field) fails with a division by zero exactly when duration = 0,
\* which is exactly when no commit with positive elapsed happened since
\* construction or the last clear; otherwise it returns total(field) /
\* duration; the call leaves the entity unchanged.
C10_RateZeroDivision ==
    /\ (m.duration = 0) <=> (sumElapsed = 0)
    /\ lastop.op = "rate" =>
          /\ (lastop.result.raised = ZeroDivisionError) <=> (m.duration = 0)
          /\ lastop.result.raised = NoError =>
                /\ lastop.result.num = total(m, lastop.field)
                /\ lastop.result.den = m.duration
          /\ m = lastop.before

\* C10 witnesses: a failed rate call after commits of elapsed 0 with a pending
\* update, and a successful one.
C10_Witness ==
    /\ lastop.op = "rate"
    /\ lastop.result.raised = ZeroDivisionError
    /\ ncommits > 0
    /\ total(m, lastop.field) # 0

C10_WitnessValue ==
    /\ lastop.op = "rate"
    /\ lastop.result.raised = NoError
    /\ lastop.result.num # 0
    /\ lastop.result.den > 1

\* The indexes of the history entries of mm whose end marker is not before
\* duration - window.
InWindow(mm, window) ==
    {i \in DOMAIN mm.history : EndMarker(mm, i) >= mm.duration - window}

\* C11: after trim(W) the history holds exactly the entries whose end marker
\* was >= duration - W before the call, in their order: an entry whose marker
\* is below the cutoff is gone and one whose marker equals it is kept.
C11_TrimRetains ==
    lastop.op = "trim" =>
      LET b == lastop.before
          keep == InWindow(b, lastop.arg)
      IN  /\ Len(m.history) = Cardinality(keep)
          /\ \A i \in DOMAIN b.history :
                (i \in keep) <=>
                   \E j \in DOMAIN m.history :
                      /\ m.history[j] = b.history[i]
                      /\ EndMarker(m, j) = EndMarker(b, i)
          /\ \A j \in DOMAIN m.history : EndMarker(m, j) >= m.duration - lastop.arg

\* C11 witness: window 4 and four commits of elapsed 2; the trim drops the
\* first entry and keeps the one whose marker equals the cutoff.
C11_Witness ==
    /\ lastop.op = "trim"
    /\ lastop.arg = TestWindow
    /\ Len(lastop.before.history) = 4
    /\ \A i \in DOMAIN lastop.before.history : lastop.before.history[i].elapsed = 2
    /\ Len(m.history) = 3
    /\ EndMarker(m, 1) = m.duration - TestWindow

\* C11 witness: window 4 and three commits of elapsed 2; the trim keeps all
\* three entries, the first of them on the edge.
C11_WitnessEdge ==
    /\ lastop.op = "trim"
    /\ lastop.arg = TestWindow
    /\ Len(lastop.before.history) = 3
    /\ \A i \in DOMAIN lastop.before.history : lastop.before.history[i].elapsed = 2
    /\ Len(m.history) = 3

C13_WitnessCommit ==
    /\ lastop.op = "commit"
    /\ changes(lastop.before) = Fields
    /\ changes(m) = {}

\* The positions in calls of the calls of fn made for the lane (-1: for the
\* aggregate or for no lane).
CallsOf(fn, lane) ==
    {n \in DOMAIN calls : calls[n].fn = fn /\ calls[n].lane = lane}

\* The last step was the metrics tick.
Ticked == CallsOf("commit", -1) # {}

\* C14: in a metrics tick every lane's Metrics and the aggregate Metrics are
\* committed exactly once, all with one elapsed value, every lane before the
\* aggregate; every lane's update is sent before the aggregate's, and the
\* display is flushed once, after the aggregate's update.
C14_TickOrder ==
    Ticked =>
      /\ Cardinality(CallsOf("commit", -1)) = 1
      /\ Cardinality(CallsOf("update", -1)) = 1
      /\ Cardinality(CallsOf("flush", -1)) = 1
      /\ \A lid \in Lanes :
            /\ Cardinality(CallsOf("commit", lid)) = 1
            /\ Cardinality(CallsOf("update", lid)) = 1
            /\ \A c \in CallsOf("commit", lid), u \in CallsOf("update", lid),
                  a \in CallsOf("commit", -1) :
                  /\ c < u
                  /\ u < a
                  /\ calls[c].arg = calls[a].arg
            /\ metrics[lid].duration > 0
            /\ metrics[lid].history[Len(metrics[lid].history)].elapsed
                  = mtotals.history[Len(mtotals.history)].elapsed
      /\ \A a \in CallsOf("commit", -1), u \in CallsOf("update", -1),
            f \in CallsOf("flush", -1) : a < u /\ u < f

\* C14 witness: a tick in which a lane and the aggregate both report a
\* changed field, after an earlier tick.
C14_Witness ==
    /\ Ticked
    /\ ticks = 2
    /\ \E lid \in Lanes : \E u \in CallsOf("update", lid) :
          "executing" \in DOMAIN calls[u].arg
    /\ \E u \in CallsOf("update", -1) : "executing" \in DOMAIN calls[u].arg
    /\ calls[Len(calls)].fn = "flush"

\* The positions after n of the calls of fn with the argument arg.
LaterCalls(n, fn, arg) ==
    {k \in DOMAIN calls : k > n /\ calls[k].fn = fn /\ calls[k].arg = arg}

\* C15: for every pipe pair _launch allocated in the last step: when the
\* spawn failed, both ends were closed and neither is open afterwards, so
\* the open descriptors are those from before the launch; when it succeeded,
\* the write end was closed after the spawn, the read end was not closed,
\* is open and is the descriptor the caller connects. No write end is open
\* between steps.
C15_LaunchDescriptors ==
    /\ \A n \in DOMAIN calls :
          calls[n].fn = "pipe" =>
             LET id == calls[n].arg
                 spawned == LaterCalls(n, "spawn", id)
             IN  IF spawned = {}
                 THEN /\ error = "spawn"
                      /\ Cardinality(LaterCalls(n, "close", Rfd(id))) = 1
                      /\ Cardinality(LaterCalls(n, "close", Wfd(id))) = 1
                      /\ Rfd(id) \notin fds
                      /\ Wfd(id) \notin fds
                 ELSE /\ \A k \in spawned :
                            Cardinality(LaterCalls(k, "close", Wfd(id))) = 1
                      /\ LaterCalls(n, "close", Rfd(id)) = {}
                      /\ Rfd(id) \in fds
                      /\ Wfd(id) \notin fds
                      /\ Cardinality(LaterCalls(n, "connect", Rfd(id))) = 1
    /\ \A p \in Pids : Wfd(p) \notin fds
    /\ \A p \in Pids : Rfd(p) \in fds => lane_of[p] \in Lanes

\* C15 witness: a step in which one launch succeeded and a later one failed;
\* the read end of the first is open, the pair of the second is closed.
C15_Witness ==
    /\ error = "spawn"
    /\ \E n \in DOMAIN calls, k \in DOMAIN calls :
          /\ n < k
          /\ calls[n].fn = "pipe"
          /\ calls[k].fn = "pipe"
          /\ LaterCalls(n, "spawn", calls[n].arg) # {}
          /\ Rfd(calls[n].arg) \in fds
          /\ LaterCalls(k, "spawn", calls[k].arg) = {}
          /\ Rfd(calls[k].arg) \notin fds
          /\ LaterCalls(k, "close", Wfd(calls[k].arg)) # {}

\* C16: every end-of-transaction trap gets a transaction-started message as
\* its start frame, a transaction-stopped message as its stop frame, and in
\* between the messages that arrived after the one and before the other, in
\* their order of arrival, none of them a boundary event.
C16_EoxArguments ==
    \A n \in EoxCalls :
       LET a == calls[n].arg
       IN  /\ a.start.ev = "transaction-started"
           /\ a.stop.ev = "transaction-stopped"
           /\ a.start.id < a.stop.id
           /\ \A i \in DOMAIN a.messages :
                 /\ a.messages[i].ev = "message"
                 /\ a.start.id < a.messages[i].id
                 /\ a.messages[i].id < a.stop.id
                 /\ \A j \in DOMAIN a.messages :
                       i < j => a.messages[i].id < a.messages[j].id

\* C16, supporting: a trap was invoked for a transaction opened by a
\* transaction-started and closed by the transaction-stopped after it.
C16_Regular ==
    \E n \in EoxCalls :
       /\ calls[n].arg.start.ev = "transaction-started"
       /\ calls[n].arg.stop.ev = "transaction-stopped"
       /\ calls[n].arg.messages = <<>>

\* The positions in the calls of the step just taken of the calls of fn.
NewCalls(fn) == {n \in DOMAIN calls' : calls'[n].fn = fn}

\* A step of the polling pass that handled one lane.
PollStep == pc = "poll" /\ visited' # visited /\ visited' # {}

\* C17, one step: the step that handles a lane's end-of-stream invokes eop
\* once, for the process the lane was reading, which it has reaped before;
\* it clears the lane's Metrics and spawns the next process of the chain
\* only after the trap; and every process a polling step reaps gets its trap.
C17_Step ==
    PollStep =>
      /\ \A n \in NewCalls("eop") :
            LET p == calls'[n].arg.pid
                lid == calls'[n].lane
            IN  /\ p \in live
                /\ p \notin live'
                /\ ioa[lid] = Rfd(p)
                /\ \A k \in NewCalls("eop") : k = n
                /\ \E k \in NewCalls("reap") : k < n /\ calls'[k].arg = p
                /\ \A k \in NewCalls("clear") : k > n /\ calls'[k].lane = lid
                /\ \A k \in NewCalls("spawn") : k > n
                /\ error' = "none" => metrics'[lid] = clear(metrics[lid])
      /\ \A p \in live \ live' :
            \E n \in NewCalls("eop") : calls'[n].arg.pid = p

C18_FinishOnce ==
    /\ \A i \in Items : finished[i] <= 1
    /\ (pc = "returned" /\ error = "none") =>
          \A i \in Items : finished[i] = (IF i <= taken THEN 1 ELSE 0)

\* C18, supporting: dispatch returned without an exception after a WorkItem
\* with a chained plan was finished once.
C18_Regular ==
    /\ pc = "returned"
    /\ error = "none"
    /\ \E i \in Items : planlen[i] = MaxChain /\ finished[i] = 1

\* C19: a step that calls queue.finish for a WorkItem leaves the WorkItem's
\* process-spec sequence exhausted and none of the processes launched from
\* it running.
C19_FinishWhenDone ==
    \A n \in DOMAIN calls :
       calls[n].fn = "finish" => ChainDone(calls[n].arg)

\* C19, supporting: the end-of-stream handler finished a WorkItem whose
\* chain of two processes had both been reaped.
C19_Regular ==
    \E n \in DOMAIN calls :
       /\ calls[n].fn = "finish"
       /\ calls[1].fn = "reap"
       /\ planlen[calls[n].arg] = 2
       /\ ChainDone(calls[n].arg)

\* The transactions open on a lane: its channels whose buffer holds a
\* transaction-started (the buffer is emptied when the transaction stops).
OpenOn(lid) ==
    IF lid \in DOMAIN statusd
    THEN Cardinality({c \in Channels : HasStart(statusd[lid].transactions[c])})
    ELSE 0

RECURSIVE OpenFrom(_)
OpenFrom(lid) == IF lid >= NLanes THEN 0 ELSE OpenOn(lid) + OpenFrom(lid + 1)

\* C20: the aggregate total of 'executing' is the number of transactions open
\* on all lanes, every lane's own total is the number open on that lane, and
\* none of them is negative.
C20_ExecutingGauge ==
    /\ total(mtotals, "executing") = OpenFrom(0)
    /\ total(mtotals, "executing") >= 0
    /\ \A lid \in Lanes :
          /\ total(metrics[lid], "executing") = OpenOn(lid)
          /\ total(metrics[lid], "executing") >= 0

\* C20, supporting: a transaction is open on a lane after a metrics tick and
\* the lane's and the aggregate's gauge both read one.
C20_Regular ==
    /\ ticks > 0
    /\ OpenFrom(0) = 1
    /\ total(mtotals, "executing") = 1
    /\ recent(mtotals, "executing") = 1
    /\ \E lid \in Lanes : OpenOn(lid) = 1 /\ total(metrics[lid], "executing") = 1

=============================================================================
